---- MODULE Spec2Model ----
(***************************************************************************)
(* djcelery/managers.py: the database managers of django-celery.           *)
(*                                                                         *)
(* Six specifications share this module:                                  *)
(*   SpecRetry  one call of a function wrapped by transaction_retry        *)
(*   SpecSeq    one worker calling TaskManager.store_result and get_task   *)
(*   SpecRace   two workers storing a result for the same new task_id      *)
(*   SpecDB     a worker, the clock and delete_expired                     *)
(*   SpecWarn   warn_if_repeatable_read on one database configuration      *)
(*   SpecTaskSet  one caller of TaskSetManager's store_result,              *)
(*              restore_taskset and delete_taskset                         *)
(***************************************************************************)
EXTENDS Integers, Sequences, FiniteSets, TLC

VARIABLES
    \* ---- transaction_retry._inner (SpecRetry)
    r_pc,        \* "call", "try", "except", "returned", "raised", "off"
    r_method,    \* which decorated function is called
    r_decarg,    \* the argument given to transaction_retry(...)
    r_call,      \* the keyword arguments as the caller passed them
    r_kwargs,    \* kwargs inside _inner: r_call, then what pop leaves
    r_max,       \* _max_retries
    r_retries,   \* the loop variable retries
    r_trace,     \* the calls made so far: fun(...) and rollback_unless_managed()
    r_result,    \* the value returned by _inner
    r_exc,       \* the exception in flight / propagated by _inner
    \* ---- the result table and the workers using the managers
    table,       \* the rows of the task result table (committed)
    nextpk,      \* the next primary key the table hands out
    now,         \* utils.now(), in seconds
    isolation,   \* the transaction isolation level of the connections
    procs,       \* the workers that run
    worker,      \* per worker: position, call, locals, connection state
    faulty,      \* whether the database may fail a statement
    last,        \* per task_id: payload of the last completed store_result
    j_pc,        \* delete_expired: "idle", "done", "off"
    j_now,       \* now() as evaluated by the last delete_expired
    j_expires,   \* its expires argument
    j_removed,   \* the number of rows its DELETE removed
    \* ---- warn_if_repeatable_read (SpecWarn)
    w_pc,        \* "start", "done", "off"
    w_engine,    \* settings.DATABASES[db]['ENGINE']
    w_val,       \* what "select version()" returns
    w_ok,        \* what cursor.execute returns for the isolation query
    w_isolation, \* what the isolation query reports
    w_py,        \* the major version of the Python running the code
    w_out,       \* what the call did: warning, cursors, queries, exception
    \* ---- the task set table and the caller of TaskSetManager (SpecTaskSet)
    ts_table,    \* the rows of the task set result table
    ts_nextpk,   \* the next primary key that table hands out
    ts_pc,       \* "idle", "call", "get", "create", "update", "except",
                 \* "returned", "raised", "off"
    ts_call,     \* the call in progress: method, arguments, locals
    ts_last      \* per taskset_id: the last completed store or delete

retryVars == <<r_pc, r_method, r_decarg, r_call, r_kwargs, r_max, r_retries, r_trace,
               r_result, r_exc>>

dbVars == <<table, nextpk, now, isolation, procs, worker, faulty, last,
            j_pc, j_now, j_expires, j_removed>>

warnVars == <<w_pc, w_engine, w_val, w_ok, w_isolation, w_py, w_out>>

tsVars == <<ts_table, ts_nextpk, ts_pc, ts_call, ts_last>>

vars == <<retryVars, dbVars, warnVars, tsVars>>

\* -------------------------------------------------------------------------
\* Bounds
\* -------------------------------------------------------------------------
MaxRetries == 3
MaxVal == 2
MaxTask == 2
MaxPk == 3
MaxTime == 1
MaxExpires == 1

\* -------------------------------------------------------------------------
\* Program constants
\* -------------------------------------------------------------------------
\* def transaction_retry(max_retries=1)
DefaultMaxRetries == 1
\* @transaction_retry(max_retries=2) on TaskManager.store_result
TaskStoreMaxRetries == 2
\* @transaction_retry(max_retries=2) on TaskSetManager.store_result
TaskSetStoreMaxRetries == 2

None == "None"
RetryKey == "exception_retry_count"

\* -------------------------------------------------------------------------
\* transaction_retry
\* -------------------------------------------------------------------------
Methods == {"TaskManager.store_result", "TaskSetManager.store_result", "fun"}

\* The exceptions a database operation raises (all are Exception subclasses,
\* the class the handler at line 45 catches).
Excs == {"IntegrityError", "OperationalError"}

\* The max_retries the decorator of `method` was built with.
DecoratorMaxRetries(method, decarg) ==
    CASE method = "TaskManager.store_result" -> TaskStoreMaxRetries
      [] method = "TaskSetManager.store_result" -> TaskSetStoreMaxRetries
      [] OTHER -> IF decarg.given THEN decarg.n ELSE DefaultMaxRetries

\* kwargs.pop(key, default): the value ...
PopValue(kwargs, key, default) ==
    IF key \in DOMAIN kwargs THEN kwargs[key] ELSE default

PopRestNoRemove(kwargs, key) == kwargs

\* ... and the dict it leaves behind.
PopRest(kwargs, key) ==
    [k \in DOMAIN kwargs \ {key} |-> kwargs[k]]

ExhaustedOffByOne(retries, max_retries) == retries > max_retries

ExhaustedInverted(retries, max_retries) == retries <= max_retries

\* if retries >= _max_retries: raise
Exhausted(retries, max_retries) == retries >= max_retries

FunEvent(kwargs, out, val) ==
    [ev |-> "fun", kw |-> DOMAIN kwargs, out |-> out, val |-> val]

RollbackEvent(out) ==
    [ev |-> "rollback", kw |-> {}, out |-> out, val |-> None]

\* The keyword arguments a caller may pass: exception_retry_count or not,
\* next to an ordinary keyword of the wrapped function.
CallKwargs ==
    {[k \in {} |-> 0]}
    \cup {[k \in {"traceback"} |-> 0]}
    \cup {[k \in {RetryKey} |-> n] : n \in 0..MaxRetries}
    \cup {[k \in {RetryKey, "traceback"} |-> IF k = RetryKey THEN n ELSE 0] :
            n \in 0..MaxRetries}

DecArgs ==
    {[given |-> FALSE, n |-> 0]} \cup {[given |-> TRUE, n |-> n] : n \in 0..MaxRetries}

RetryInit ==
    /\ r_pc = "call"
    /\ r_method \in Methods
    /\ r_decarg \in (IF r_method = "fun" THEN DecArgs ELSE {[given |-> TRUE, n |-> 2]})
    /\ r_call \in CallKwargs
    /\ r_kwargs = r_call
    /\ r_max = 0
    /\ r_retries = 0
    /\ r_trace = <<>>
    /\ r_result = None
    /\ r_exc = None

RetryOff ==
    /\ r_pc = "off"
    /\ r_method = "fun"
    /\ r_decarg = [given |-> FALSE, n |-> 0]
    /\ r_call = [k \in {} |-> 0]
    /\ r_kwargs = r_call
    /\ r_max = 0
    /\ r_retries = 0
    /\ r_trace = <<>>
    /\ r_result = None
    /\ r_exc = None

\* -------------------------------------------------------------------------
\* The task result table
\* -------------------------------------------------------------------------
Workers == {1, 2}
TaskIds == 1..MaxTask
RC == "READ-COMMITTED"
RR == "REPEATABLE-READ"

\* The (result, status, traceback, children) a store_result call is given:
\* a success and a failure, differing in every field.
SampleArgs ==
    <<[result |-> 1, status |-> "SUCCESS", traceback |-> "None", children |-> <<>>],
      [result |-> 2, status |-> "FAILURE", traceback |-> "Traceback",
       children |-> <<2>>]>>
Payloads == DOMAIN SampleArgs
Args(i) == SampleArgs[i]

\* A model instance with the defaults of its fields: no primary key, PENDING.
EmptyObj ==
    [pk |-> 0, task_id |-> 0, status |-> "PENDING", result |-> 0,
     traceback |-> "None", meta |-> [children |-> <<>>], date_done |-> 0,
     hidden |-> FALSE]

\* dict(a); a.update(b)
DictUpdate(a, b) ==
    [k \in DOMAIN a \cup DOMAIN b |-> IF k \in DOMAIN b THEN b[k] ELSE a[k]]

\* self.model(**params)
Model(params) ==
    [f \in DOMAIN EmptyObj |-> IF f \in DOMAIN params THEN params[f] ELSE EmptyObj[f]]

\* The rows a lookup by task_id selects.
Matching(rows, task_id) == {r \in rows : r.task_id = task_id}

NoSnap == [has |-> FALSE, rows |-> {}]

\* What a SELECT of worker w sees: under REPEATABLE-READ the snapshot its
\* transaction took at its first read, otherwise the committed table.
Visible(w) ==
    IF isolation = RR /\ worker[w].snap.has THEN worker[w].snap.rows ELSE table

SnapAfterRead(w) ==
    IF isolation = RR /\ ~worker[w].snap.has
      THEN [has |-> TRUE, rows |-> table]
      ELSE worker[w].snap

\* INSERT: the unique index on task_id refuses a second row for a task_id
\* (the model declares task_id unique; the primary key is unique too).
CanInsert(rows, obj) == \A r \in rows : r.task_id # obj.task_id /\ r.pk # obj.pk

StoreResultDefaultsNoTraceback(result, status, traceback, children) ==
    [status |-> status, result |-> result, traceback |-> "None",
     meta |-> [children |-> children]]

\* defaults={'status': status, 'result': result, 'traceback': traceback,
\*           'meta': {'children': children}}
StoreResultDefaults(result, status, traceback, children) ==
    [status |-> status, result |-> result, traceback |-> traceback,
     meta |-> [children |-> children]]

DefaultsOf(i) ==
    StoreResultDefaults(Args(i).result, Args(i).status, Args(i).traceback,
                        Args(i).children)

update_model_with_dict_no_setattr(obj, fields) == obj

\* [setattr(obj, attr_name, attr_value) for ... in fields.items()]
update_model_with_dict(obj, fields) ==
    [f \in DOMAIN obj |-> IF f \in DOMAIN fields THEN fields[f] ELSE obj[f]]

\* obj.save(): date_done is stamped (auto_now), then UPDATE by primary key,
\* INSERT when no row has that key.
Stamped(obj) == [obj EXCEPT !.date_done = now]

SaveIsUpdate(obj) == \E r \in table : r.pk = obj.pk

SaveOk(obj) ==
    \/ /\ SaveIsUpdate(obj)
       /\ \A r \in table : r.pk # obj.pk => r.task_id # obj.task_id
    \/ /\ ~SaveIsUpdate(obj)
       /\ CanInsert(table, obj)

Saved(obj) == {r \in table : r.pk # obj.pk} \cup {Stamped(obj)}

\* rollback_unless_managed(): the open transaction is rolled back, so the
\* next read starts a new one.
RollbackUnlessManaged(snap) == NoSnap

IdleWorker ==
    [pc |-> "idle", method |-> "none", task_id |-> 0, payload |-> 0,
     kwargs |-> [k \in {} |-> 0], max_retries |-> 0, retries |-> 0,
     obj |-> EmptyObj, created |-> FALSE, exc |-> None, ret |-> EmptyObj,
     calls |-> <<>>, attempts |-> 0, rollbacks |-> 0, pre |-> {},
     last_id |-> 0, snap |-> NoSnap, warn_called |-> FALSE]

NoKwargs == [k \in {} |-> 0]

\* exception_retry_count=1, the retry count the docstring of get_task names.
RetryKwargs == {[k \in {RetryKey} |-> 1]}

\* A worker entering a call: the locals of the previous call are gone; the
\* manager's _last_id and the connection's open snapshot stay.
Entering(w, method, t, i, kw) ==
    [IdleWorker EXCEPT !.pc = "call", !.method = method, !.task_id = t,
                       !.payload = i, !.kwargs = kw, !.pre = table,
                       !.last_id = worker[w].last_id, !.snap = worker[w].snap]

DbInit ==
    /\ table = {}
    /\ nextpk = 1
    /\ now = 0
    /\ isolation \in {RC, RR}
    /\ worker = [w \in Workers |-> IdleWorker]
    /\ last = [t \in TaskIds |-> 0]
    /\ j_now = 0
    /\ j_expires = 0
    /\ j_removed = 0

DbOff ==
    /\ table = {}
    /\ nextpk = 1
    /\ now = 0
    /\ isolation = RC
    /\ procs = {}
    /\ worker = [w \in Workers |-> IdleWorker]
    /\ faulty = FALSE
    /\ last = [t \in TaskIds |-> 0]
    /\ j_pc = "off"
    /\ j_now = 0
    /\ j_expires = 0
    /\ j_removed = 0

Set(w, rec) == worker' = [worker EXCEPT ![w] = rec]

\* ---- TaskManager.store_result ---------------------------------------------
\* A worker calls store_result(task_id, result, status, traceback, children).
StoreResultInvoke(w) ==
    /\ w \in procs
    /\ worker[w].pc = "idle"
    /\ \E t \in TaskIds, i \in Payloads :
          Set(w, Entering(w, "store_result", t, i, NoKwargs))
    /\ UNCHANGED <<retryVars, warnVars, tsVars, table, nextpk, now, isolation, procs, faulty, last,
                   j_pc, j_now, j_expires, j_removed>>

\* The same call with exception_retry_count=1.
StoreResultInvokeKw(w) ==
    /\ w \in procs
    /\ worker[w].pc = "idle"
    /\ \E t \in TaskIds, i \in Payloads, kw \in RetryKwargs :
          Set(w, Entering(w, "store_result", t, i, kw))
    /\ UNCHANGED <<retryVars, warnVars, tsVars, table, nextpk, now, isolation, procs, faulty, last,
                   j_pc, j_now, j_expires, j_removed>>

\* _inner: _max_retries = kwargs.pop('exception_retry_count', max_retries)
StoreResultEnter(w) ==
    /\ worker[w].pc = "call"
    /\ worker[w].method = "store_result"
    /\ Set(w, [worker[w] EXCEPT
                 !.max_retries =
                     PopValue(worker[w].kwargs, RetryKey,
                              DecoratorMaxRetries("TaskManager.store_result",
                                                  [given |-> FALSE, n |-> 0])),
                 !.kwargs = PopRest(worker[w].kwargs, RetryKey),
                 !.retries = 0,
                 !.pc = "get"])
    /\ UNCHANGED <<retryVars, warnVars, tsVars, table, nextpk, now, isolation, procs, faulty, last,
                   j_pc, j_now, j_expires, j_removed>>

\* The environment fails the statement a worker is about to run.
DbFault(w) ==
    /\ worker[w].pc \in {"get", "update"}
    /\ faulty
    /\ Set(w, [worker[w] EXCEPT
                 !.attempts = IF worker[w].pc = "get" THEN @ + 1 ELSE @,
                 !.calls = IF worker[w].pc = "get" THEN <<"get_or_create">> ELSE @,
                 !.exc = "OperationalError",
                 !.pc = "except"])
    /\ UNCHANGED <<retryVars, warnVars, tsVars, table, nextpk, now, isolation, procs, faulty,
                   last, j_pc, j_now, j_expires, j_removed>>

\* fun(): update_or_create calls get_or_create, which first tries
\* self.get(**lookup).
GetOrCreateGet(w) ==
    /\ worker[w].pc = "get"
    /\ LET m == Matching(Visible(w), worker[w].task_id)
           base == [worker[w] EXCEPT !.attempts = @ + 1,
                                     !.calls = <<"get_or_create">>,
                                     !.snap = SnapAfterRead(w)]
       IN  CASE Cardinality(m) = 1 ->
                  Set(w, [base EXCEPT !.obj = CHOOSE r \in m : TRUE,
                                      !.created = FALSE, !.pc = "update"])
             [] Cardinality(m) = 0 ->
                  Set(w, [base EXCEPT !.pc = "create"])
             [] OTHER ->
                  Set(w, [base EXCEPT !.exc = "MultipleObjectsReturned",
                                      !.pc = "except"])
    /\ UNCHANGED <<retryVars, warnVars, tsVars, table, nextpk, now, isolation, procs, faulty, last,
                   j_pc, j_now, j_expires, j_removed>>

\* get_or_create, DoesNotExist branch: INSERT a row built from the lookup and
\* the defaults. Created: update_or_create returns the object at once.
GetOrCreateCreate(w) ==
    /\ worker[w].pc = "create"
    /\ LET params == DictUpdate([task_id |-> worker[w].task_id],
                                DefaultsOf(worker[w].payload))
           obj == Stamped([Model(params) EXCEPT !.pk = nextpk])
       IN  IF CanInsert(table, obj)
             THEN /\ nextpk <= MaxPk
                  /\ table' = table \cup {obj}
                  /\ nextpk' = nextpk + 1
                  /\ last' = [last EXCEPT ![worker[w].task_id] = worker[w].payload]
                  /\ Set(w, [worker[w] EXCEPT !.obj = obj, !.created = TRUE,
                                              !.ret = obj, !.snap = NoSnap,
                                              !.pc = "returned"])
             ELSE /\ Set(w, [worker[w] EXCEPT !.exc = "IntegrityError",
                                              !.pc = "reget"])
                  /\ UNCHANGED <<retryVars, warnVars, tsVars, table, nextpk, last>>
    /\ UNCHANGED <<retryVars, warnVars, tsVars, now, isolation, procs, faulty, j_pc, j_now, j_expires, j_removed>>

\* get_or_create after IntegrityError: the savepoint is rolled back and the
\* lookup is tried again; DoesNotExist re-raises the IntegrityError.
GetOrCreateReget(w) ==
    /\ worker[w].pc = "reget"
    /\ LET m == Matching(Visible(w), worker[w].task_id)
           base == [worker[w] EXCEPT !.snap = SnapAfterRead(w)]
       IN  IF Cardinality(m) = 1
             THEN Set(w, [base EXCEPT !.obj = CHOOSE r \in m : TRUE,
                                      !.created = FALSE, !.exc = None,
                                      !.pc = "update"])
             ELSE Set(w, [base EXCEPT !.pc = "except"])
    /\ UNCHANGED <<retryVars, warnVars, tsVars, table, nextpk, now, isolation, procs, faulty, last,
                   j_pc, j_now, j_expires, j_removed>>

UpdateOrCreateUpdateSkipped(w) ==
    /\ worker[w].pc = "update"
    /\ last' = [last EXCEPT ![worker[w].task_id] = worker[w].payload]
    /\ Set(w, [worker[w] EXCEPT !.ret = worker[w].obj, !.pc = "returned"])
    /\ UNCHANGED <<retryVars, warnVars, tsVars, table, nextpk, now, isolation, procs, faulty,
                   j_pc, j_now, j_expires, j_removed>>

\* update_or_create, not created: fields = defaults + lookup, setattr each,
\* obj.save(), return obj.
UpdateOrCreateUpdate(w) ==
    /\ worker[w].pc = "update"
    /\ LET fields == DictUpdate(DefaultsOf(worker[w].payload),
                                [task_id |-> worker[w].task_id])
           obj == update_model_with_dict(worker[w].obj, fields)
       IN  IF SaveOk(obj)
             THEN /\ table' = Saved(obj)
                  /\ last' = [last EXCEPT ![worker[w].task_id] = worker[w].payload]
                  /\ Set(w, [worker[w] EXCEPT !.obj = Stamped(obj),
                                              !.ret = Stamped(obj),
                                              !.calls = Append(@, "save"),
                                              !.snap = NoSnap,
                                              !.pc = "returned"])
             ELSE /\ Set(w, [worker[w] EXCEPT !.calls = Append(@, "save"),
                                              !.exc = "IntegrityError",
                                              !.pc = "except"])
                  /\ UNCHANGED <<retryVars, warnVars, tsVars, table, last>>
    /\ UNCHANGED <<retryVars, warnVars, tsVars, nextpk, now, isolation, procs, faulty, j_pc, j_now, j_expires, j_removed>>

\* _inner, except Exception: re-raise or roll back and try again. The
\* rollback ends the transaction, and with it the snapshot.
StoreResultExcept(w) ==
    /\ worker[w].pc = "except"
    /\ IF Exhausted(worker[w].retries, worker[w].max_retries)
         THEN Set(w, [worker[w] EXCEPT !.pc = "raised"])
         ELSE Set(w, [worker[w] EXCEPT !.rollbacks = @ + 1,
                                       !.snap = RollbackUnlessManaged(@),
                                       !.retries = @ + 1,
                                       !.exc = None,
                                       !.pc = "get"])
    /\ UNCHANGED <<retryVars, warnVars, tsVars, table, nextpk, now, isolation, procs, faulty, last,
                   j_pc, j_now, j_expires, j_removed>>

\* The call is over and its locals are gone; the caller goes on.
Finish(w) ==
    /\ worker[w].pc \in {"returned", "raised"}
    /\ Set(w, [IdleWorker EXCEPT !.last_id = worker[w].last_id,
                                 !.snap = worker[w].snap])
    /\ UNCHANGED <<retryVars, warnVars, tsVars, table, nextpk, now, isolation, procs, faulty, last,
                   j_pc, j_now, j_expires, j_removed>>

StoreResultStep(w) ==
    \/ StoreResultEnter(w)
    \/ GetOrCreateGet(w)
    \/ GetOrCreateCreate(w)
    \/ GetOrCreateReget(w)
    \/ UpdateOrCreateUpdate(w)
    \/ StoreResultExcept(w)

\* ---- TaskManager.get_task -------------------------------------------------
\* A worker calls get_task(task_id), with or without exception_retry_count.
GetTaskInvoke(w) ==
    /\ w \in procs
    /\ worker[w].pc = "idle"
    /\ \E t \in TaskIds, kw \in {NoKwargs} \cup RetryKwargs :
          Set(w, Entering(w, "get_task", t, 0, kw))
    /\ UNCHANGED <<retryVars, warnVars, tsVars, table, nextpk, now, isolation, procs, faulty, last,
                   j_pc, j_now, j_expires, j_removed>>

\* def get_task(self, task_id): the method is not decorated and takes no
\* keyword but task_id, so any other keyword is a TypeError at the call.
GetTaskEnter(w) ==
    /\ worker[w].pc = "call"
    /\ worker[w].method = "get_task"
    /\ IF DOMAIN worker[w].kwargs = {}
         THEN Set(w, [worker[w] EXCEPT !.pc = "lookup"])
         ELSE Set(w, [worker[w] EXCEPT !.exc = "TypeError", !.pc = "raised"])
    /\ UNCHANGED <<retryVars, warnVars, tsVars, table, nextpk, now, isolation, procs, faulty, last,
                   j_pc, j_now, j_expires, j_removed>>

\* try: return self.get(task_id=task_id); except self.model.DoesNotExist: ...
\* Any other exception of the lookup leaves get_task.
GetTaskLookup(w) ==
    /\ worker[w].pc = "lookup"
    /\ LET t == worker[w].task_id
           m == Matching(Visible(w), t)
           base == [worker[w] EXCEPT !.attempts = @ + 1,
                                     !.snap = SnapAfterRead(w)]
       IN  CASE Cardinality(m) = 1 ->
                  Set(w, [base EXCEPT !.ret = CHOOSE r \in m : TRUE,
                                      !.pc = "returned"])
             [] Cardinality(m) = 0 ->
                  Set(w, [base EXCEPT !.warn_called = (worker[w].last_id = t),
                                      !.last_id = t,
                                      !.ret = Model([task_id |-> t]),
                                      !.pc = "returned"])
             [] OTHER ->
                  Set(w, [base EXCEPT !.exc = "MultipleObjectsReturned",
                                      !.pc = "raised"])
    /\ UNCHANGED <<retryVars, warnVars, tsVars, table, nextpk, now, isolation, procs, faulty, last,
                   j_pc, j_now, j_expires, j_removed>>

\* The environment fails the lookup of get_task.
GetTaskFault(w) ==
    /\ worker[w].pc = "lookup"
    /\ faulty
    /\ Set(w, [worker[w] EXCEPT !.attempts = @ + 1,
                                !.exc = "OperationalError",
                                !.pc = "raised"])
    /\ UNCHANGED <<retryVars, warnVars, tsVars, table, nextpk, now, isolation, procs, faulty,
                   last, j_pc, j_now, j_expires, j_removed>>

GetTaskStep(w) == GetTaskEnter(w) \/ GetTaskLookup(w)

\* ---- ResultManager.delete_expired and the clock ---------------------------
get_all_expired_gt(rows, expires) ==
    {r \in rows : r.date_done > now - expires}

\* self.filter(date_done__lt=now() - maybe_timedelta(expires)); expires is a
\* number of seconds, which maybe_timedelta turns into a timedelta.
get_all_expired(rows, expires) ==
    {r \in rows : r.date_done < now - expires}

\* with commit_on_success(): UPDATE ... SET hidden = True on the expired
\* rows, then DELETE FROM table WHERE hidden = True; one transaction.
DeleteExpired ==
    /\ j_pc = "idle"
    /\ \E expires \in 0..MaxExpires :
          LET expired == get_all_expired(table, expires)
              updated == {IF r \in expired THEN [r EXCEPT !.hidden = TRUE] ELSE r :
                            r \in table}
              kept == {r \in updated : r.hidden # TRUE}
          IN  /\ table' = kept
              /\ j_removed' = Cardinality(updated) - Cardinality(kept)
              /\ j_expires' = expires
    /\ j_now' = now
    /\ j_pc' = "done"
    /\ UNCHANGED <<retryVars, warnVars, tsVars, nextpk, now, isolation, procs, worker, faulty, last>>

\* delete_expired has returned.
DeleteExpiredReturn ==
    /\ j_pc = "done"
    /\ j_pc' = "idle"
    /\ j_now' = 0
    /\ j_expires' = 0
    /\ j_removed' = 0
    /\ UNCHANGED <<retryVars, warnVars, tsVars, table, nextpk, now, isolation, procs, worker,
                   faulty, last>>

\* Time passes.
Tick ==
    /\ procs # {}
    /\ now < MaxTime
    /\ now' = now + 1
    /\ UNCHANGED <<retryVars, warnVars, tsVars, table, nextpk, isolation, procs, worker, faulty,
                   last, j_pc, j_now, j_expires, j_removed>>

\* -------------------------------------------------------------------------
\* TaskSetManager
\* -------------------------------------------------------------------------
TaskSetIds == 1..MaxTask
TaskSetResults == 1..MaxVal

\* A task set instance with the defaults of the fields the manager touches.
TsEmptyObj == [pk |-> 0, taskset_id |-> 0, result |-> 0]

\* What a method returns: None or a model instance.
PyNone == [is_none |-> TRUE, obj |-> TsEmptyObj]
PyObj(o) == [is_none |-> FALSE, obj |-> o]

\* if s: a model instance is true, None is not.
IsTrue(s) == ~s.is_none

\* The rows a lookup by taskset_id selects.
TsMatching(rows, taskset_id) == {r \in rows : r.taskset_id = taskset_id}

\* self.model(**params)
TaskSetModel(params) ==
    [f \in DOMAIN TsEmptyObj |->
        IF f \in DOMAIN params THEN params[f] ELSE TsEmptyObj[f]]

\* defaults={'result': result}
TaskSetDefaults(result) == [result |-> result]

\* try: return self.get(taskset_id=taskset_id)
\* except self.model.DoesNotExist: pass
\* get raises MultipleObjectsReturned, which is not caught, on several rows.
restore_taskset(rows, taskset_id) ==
    LET m == TsMatching(rows, taskset_id)
    IN  CASE Cardinality(m) = 1 ->
               [ret |-> PyObj(CHOOSE r \in m : TRUE), exc |-> None]
          [] Cardinality(m) = 0 ->
               [ret |-> PyNone, exc |-> None]
          [] OTHER ->
               [ret |-> PyNone, exc |-> "MultipleObjectsReturned"]

ModelDeleteKeepsRow(rows, s) == rows

\* s.delete(): DELETE the row with the primary key of s.
ModelDelete(rows, s) == {r \in rows : r.pk # s.pk}

\* obj.save(): UPDATE by primary key, INSERT when no row has that key.
TaskSetSaved(rows, obj) == {r \in rows : r.pk # obj.pk} \cup {obj}

TsIdleCall ==
    [method |-> "none", taskset_id |-> 0, result |-> 0,
     kwargs |-> [k \in {} |-> 0], max_retries |-> 0, retries |-> 0,
     attempts |-> 0, obj |-> TsEmptyObj, created |-> FALSE, exc |-> None,
     ret |-> PyNone, pre |-> {}]

\* No store_result and no delete_taskset has completed for a taskset_id yet.
NoWrite == [op |-> "none", result |-> 0]

TsInit ==
    /\ ts_table = {}
    /\ ts_nextpk = 1
    /\ ts_pc = "idle"
    /\ ts_call = TsIdleCall
    /\ ts_last = [t \in TaskSetIds |-> NoWrite]

TsOff ==
    /\ ts_table = {}
    /\ ts_nextpk = 1
    /\ ts_pc = "off"
    /\ ts_call = TsIdleCall
    /\ ts_last = [t \in TaskSetIds |-> NoWrite]

\* ---- TaskSetManager.store_result ------------------------------------------
\* The caller calls store_result(taskset_id, result), with or without
\* exception_retry_count.
TaskSetStoreResultInvoke ==
    /\ ts_pc = "idle"
    /\ \E t \in TaskSetIds, r \in TaskSetResults,
          kw \in {[k \in {} |-> 0]} \cup RetryKwargs :
          ts_call' = [TsIdleCall EXCEPT !.method = "store_result",
                                        !.taskset_id = t, !.result = r,
                                        !.kwargs = kw, !.pre = ts_table]
    /\ ts_pc' = "call"
    /\ UNCHANGED <<retryVars, dbVars, warnVars, ts_table, ts_nextpk, ts_last>>

\* _inner: _max_retries = kwargs.pop('exception_retry_count', max_retries)
TaskSetStoreResultEnter ==
    /\ ts_pc = "call"
    /\ ts_call.method = "store_result"
    /\ ts_call' = [ts_call EXCEPT
                     !.max_retries =
                         PopValue(ts_call.kwargs, RetryKey,
                                  DecoratorMaxRetries("TaskSetManager.store_result",
                                                      [given |-> FALSE, n |-> 0])),
                     !.kwargs = PopRest(ts_call.kwargs, RetryKey),
                     !.retries = 0]
    /\ ts_pc' = "get"
    /\ UNCHANGED <<retryVars, dbVars, warnVars, ts_table, ts_nextpk, ts_last>>

\* The environment fails the statement store_result is about to run.
TaskSetFault ==
    /\ ts_pc \in {"get", "update"}
    /\ ts_call' = [ts_call EXCEPT
                     !.attempts = IF ts_pc = "get" THEN @ + 1 ELSE @,
                     !.exc = "OperationalError"]
    /\ ts_pc' = "except"
    /\ UNCHANGED <<retryVars, dbVars, warnVars, ts_table, ts_nextpk, ts_last>>

\* fun(): update_or_create calls get_or_create, which first tries
\* self.get(taskset_id=taskset_id).
TaskSetGetOrCreateGet ==
    /\ ts_pc = "get"
    /\ LET m == TsMatching(ts_table, ts_call.taskset_id)
           base == [ts_call EXCEPT !.attempts = @ + 1]
       IN  CASE Cardinality(m) = 1 ->
                  /\ ts_call' = [base EXCEPT !.obj = CHOOSE r \in m : TRUE,
                                             !.created = FALSE]
                  /\ ts_pc' = "update"
             [] Cardinality(m) = 0 ->
                  /\ ts_call' = base
                  /\ ts_pc' = "create"
             [] OTHER ->
                  /\ ts_call' = [base EXCEPT !.exc = "MultipleObjectsReturned"]
                  /\ ts_pc' = "except"
    /\ UNCHANGED <<retryVars, dbVars, warnVars, ts_table, ts_nextpk, ts_last>>

\* get_or_create, DoesNotExist branch: INSERT a row built from the lookup and
\* the defaults. Created: update_or_create returns the object at once.
TaskSetGetOrCreateCreate ==
    /\ ts_pc = "create"
    /\ ts_nextpk <= MaxPk
    /\ LET params == DictUpdate([taskset_id |-> ts_call.taskset_id],
                                TaskSetDefaults(ts_call.result))
           obj == [TaskSetModel(params) EXCEPT !.pk = ts_nextpk]
       IN  /\ ts_table' = ts_table \cup {obj}
           /\ ts_call' = [ts_call EXCEPT !.obj = obj, !.created = TRUE,
                                         !.ret = PyObj(obj)]
    /\ ts_nextpk' = ts_nextpk + 1
    /\ ts_last' = [ts_last EXCEPT ![ts_call.taskset_id] =
                      [op |-> "store", result |-> ts_call.result]]
    /\ ts_pc' = "returned"
    /\ UNCHANGED <<retryVars, dbVars, warnVars>>

\* update_or_create, not created: fields = defaults + lookup, setattr each,
\* obj.save(), return obj.
TaskSetUpdateOrCreateUpdate ==
    /\ ts_pc = "update"
    /\ LET fields == DictUpdate(TaskSetDefaults(ts_call.result),
                                [taskset_id |-> ts_call.taskset_id])
           obj == update_model_with_dict(ts_call.obj, fields)
       IN  /\ ts_table' = TaskSetSaved(ts_table, obj)
           /\ ts_call' = [ts_call EXCEPT !.obj = obj, !.ret = PyObj(obj)]
    /\ ts_last' = [ts_last EXCEPT ![ts_call.taskset_id] =
                      [op |-> "store", result |-> ts_call.result]]
    /\ ts_pc' = "returned"
    /\ UNCHANGED <<retryVars, dbVars, warnVars, ts_nextpk>>

\* _inner, except Exception: re-raise, or roll back and try again.
TaskSetStoreResultExcept ==
    /\ ts_pc = "except"
    /\ IF Exhausted(ts_call.retries, ts_call.max_retries)
         THEN /\ ts_pc' = "raised"
              /\ UNCHANGED ts_call
         ELSE /\ ts_call' = [ts_call EXCEPT !.retries = @ + 1, !.exc = None]
              /\ ts_pc' = "get"
    /\ UNCHANGED <<retryVars, dbVars, warnVars, ts_table, ts_nextpk, ts_last>>

\* ---- TaskSetManager.restore_taskset ---------------------------------------
RestoreTasksetInvoke ==
    /\ ts_pc = "idle"
    /\ \E t \in TaskSetIds :
          ts_call' = [TsIdleCall EXCEPT !.method = "restore_taskset",
                                        !.taskset_id = t, !.pre = ts_table]
    /\ ts_pc' = "call"
    /\ UNCHANGED <<retryVars, dbVars, warnVars, ts_table, ts_nextpk, ts_last>>

RestoreTaskset ==
    /\ ts_pc = "call"
    /\ ts_call.method = "restore_taskset"
    /\ LET out == restore_taskset(ts_table, ts_call.taskset_id)
       IN  /\ ts_call' = [ts_call EXCEPT !.ret = out.ret, !.exc = out.exc,
                                         !.attempts = @ + 1]
           /\ ts_pc' = IF out.exc = None THEN "returned" ELSE "raised"
    /\ UNCHANGED <<retryVars, dbVars, warnVars, ts_table, ts_nextpk, ts_last>>

\* ---- TaskSetManager.delete_taskset ----------------------------------------
DeleteTasksetInvoke ==
    /\ ts_pc = "idle"
    /\ \E t \in TaskSetIds :
          ts_call' = [TsIdleCall EXCEPT !.method = "delete_taskset",
                                        !.taskset_id = t, !.pre = ts_table]
    /\ ts_pc' = "call"
    /\ UNCHANGED <<retryVars, dbVars, warnVars, ts_table, ts_nextpk, ts_last>>

\* s = self.restore_taskset(taskset_id); if s: s.delete()
DeleteTaskset ==
    /\ ts_pc = "call"
    /\ ts_call.method = "delete_taskset"
    /\ LET out == restore_taskset(ts_table, ts_call.taskset_id)
           s == out.ret
       IN  IF out.exc # None
             THEN /\ ts_call' = [ts_call EXCEPT !.exc = out.exc,
                                                !.attempts = @ + 1]
                  /\ ts_pc' = "raised"
                  /\ UNCHANGED <<ts_table, ts_last>>
             ELSE /\ ts_table' = IF IsTrue(s) THEN ModelDelete(ts_table, s.obj)
                                 ELSE ts_table
                  /\ ts_call' = [ts_call EXCEPT !.obj = s.obj,
                                                !.created = IsTrue(s),
                                                !.attempts = @ + 1]
                  /\ ts_last' = [ts_last EXCEPT ![ts_call.taskset_id] =
                                    [op |-> "delete", result |-> 0]]
                  /\ ts_pc' = "returned"
    /\ UNCHANGED <<retryVars, dbVars, warnVars, ts_nextpk>>

\* The call is over and its locals are gone; the caller goes on.
TsFinish ==
    /\ ts_pc \in {"returned", "raised"}
    /\ ts_call' = TsIdleCall
    /\ ts_pc' = "idle"
    /\ UNCHANGED <<retryVars, dbVars, warnVars, ts_table, ts_nextpk, ts_last>>

\* -------------------------------------------------------------------------
\* TaskManager.warn_if_repeatable_read
\* -------------------------------------------------------------------------
\* Strings are sequences of characters.
E_mysql == <<"m", "y", "s", "q", "l">>
E_MySQL == <<"M", "y", "S", "Q", "L">>
E_backends_mysql == <<"d", "j", "a", "n", "g", "o", ".", "d", "b", ".", "b", "a", "c", "k", "e", "n", "d", "s", ".", "m", "y", "s", "q", "l">>
E_MYSQL_pool == <<"M", "Y", "S", "Q", "L", "_", "p", "o", "o", "l">>
E_sqlite3 == <<"d", "j", "a", "n", "g", "o", ".", "d", "b", ".", "b", "a", "c", "k", "e", "n", "d", "s", ".", "s", "q", "l", "i", "t", "e", "3">>
E_postgresql == <<"p", "o", "s", "t", "g", "r", "e", "s", "q", "l">>
E_my_sql == <<"m", "y", ".", "s", "q", "l">>
Engines == {E_mysql, E_MySQL, E_backends_mysql, E_MYSQL_pool, E_sqlite3, E_postgresql, E_my_sql}

V_5_7_20 == <<"5", ".", "7", ".", "2", "0">>
V_5_7_19 == <<"5", ".", "7", ".", "1", "9">>
V_5_6_40_log == <<"5", ".", "6", ".", "4", "0", "-", "l", "o", "g">>
V_8_0_11 == <<"8", ".", "0", ".", "1", "1">>
V_5_7_20_log == <<"5", ".", "7", ".", "2", "0", "-", "l", "o", "g">>
V_10_1_26_MariaDB == <<"1", "0", ".", "1", ".", "2", "6", "-", "M", "a", "r", "i", "a", "D", "B">>
V_5_7_rc == <<"5", ".", "7", "-", "r", "c">>
V_5_7 == <<"5", ".", "7">>
V_5_10_1 == <<"5", ".", "1", "0", ".", "1">>
ServerVersions == {V_5_7_20, V_5_7_19, V_5_6_40_log, V_8_0_11, V_5_7_20_log, V_10_1_26_MariaDB, V_5_7_rc, V_5_7, V_5_10_1}

S_mysql == <<"m", "y", "s", "q", "l">>
SelectVersion == "select version()"
SelectTransactionIsolation == "SELECT @@transaction_isolation"
SelectTxIsolation == "SELECT @@tx_isolation"
IsolationLevels == {"REPEATABLE-READ", "READ-COMMITTED", "repeatable-read"}
\* What cursor.execute returns: a row count, or None with some drivers.
ExecuteResults == {"None", "0", "1"}

UpperChars == <<"A", "B", "C", "D", "E", "F", "G", "H", "I", "J", "K", "L", "M",
                "N", "O", "P", "Q", "R", "S", "T", "U", "V", "W", "X", "Y", "Z">>
LowerChars == <<"a", "b", "c", "d", "e", "f", "g", "h", "i", "j", "k", "l", "m",
                "n", "o", "p", "q", "r", "s", "t", "u", "v", "w", "x", "y", "z">>
DigitChars == <<"0", "1", "2", "3", "4", "5", "6", "7", "8", "9">>

LowerChar(c) ==
    IF \E i \in 1..Len(UpperChars) : UpperChars[i] = c
      THEN LowerChars[CHOOSE i \in 1..Len(UpperChars) : UpperChars[i] = c]
      ELSE c

LowerIdentity(str) == str

\* str.lower()
Lower(str) == [i \in 1..Len(str) |-> LowerChar(str[i])]

\* sub in str
Contains(str, sub) ==
    \E i \in 1..(Len(str) - Len(sub) + 1) : SubSeq(str, i, i + Len(sub) - 1) = sub

\* 'mysql' in self.current_engine().lower()
EngineIsMysql(engine) == Contains(Lower(engine), S_mysql)

\* re.compile(r"[.\-]").split(val)
RECURSIVE re_split(_, _, _)
re_split(val, i, piece) ==
    IF i > Len(val) THEN <<piece>>
    ELSE IF val[i] \in {".", "-"}
           THEN <<piece>> \o re_split(val, i + 1, <<>>)
           ELSE re_split(val, i + 1, Append(piece, val[i]))

IsDigit(c) == \E d \in 1..Len(DigitChars) : DigitChars[d] = c
DigitValue(c) == (CHOOSE d \in 1..Len(DigitChars) : DigitChars[d] = c) - 1

RECURSIVE DecimalValue(_)
DecimalValue(piece) ==
    IF Len(piece) = 0 THEN 0
    ELSE 10 * DecimalValue(SubSeq(piece, 1, Len(piece) - 1))
           + DigitValue(piece[Len(piece)])

\* try: version.append(int(n)); except ValueError: version.append(n)
VersionPart(piece) ==
    IF Len(piece) > 0 /\ \A i \in 1..Len(piece) : IsDigit(piece[i])
      THEN [int |-> TRUE, n |-> DecimalValue(piece), s |-> <<>>]
      ELSE [int |-> FALSE, n |-> 0, s |-> piece]

\* _get_server_version_info_for_mysql: the tuple built from "select version()"
ParseVersion(val) ==
    LET pieces == re_split(val, 1, <<>>)
    IN  [i \in 1..Len(pieces) |-> VersionPart(pieces[i])]

IntPart(n) == [int |-> TRUE, n |-> n, s |-> <<>>]
\* (5, 7, 20)
MinVersion == <<IntPart(5), IntPart(7), IntPart(20)>>

\* a >= b on tuples, b a tuple of ints: the first differing position decides;
\* a str against an int is ordered after it by Python 2 and is a TypeError
\* in Python 3.
RECURSIVE TupleCompare(_, _, _, _)
TupleCompare(a, b, i, py) ==
    IF i > Len(a) /\ i > Len(b) THEN "eq"
    ELSE IF i > Len(a) THEN "lt"
    ELSE IF i > Len(b) THEN "gt"
    ELSE IF a[i] = b[i] THEN TupleCompare(a, b, i + 1, py)
    ELSE IF a[i].int
           THEN (IF a[i].n < b[i].n THEN "lt" ELSE "gt")
           ELSE (IF py = 2 THEN "gt" ELSE "TypeError")

\* if version >= (5, 7, 20): "SELECT @@transaction_isolation"
\* else: "SELECT @@tx_isolation"
IsolationQuery(cmp) ==
    IF cmp \in {"gt", "eq"} THEN SelectTransactionIsolation ELSE SelectTxIsolation

\* if ok:
Truthy(ok) == ok \notin {"None", "0"}

WarnInit ==
    /\ w_pc = "start"
    /\ w_engine \in Engines
    /\ w_val \in ServerVersions
    /\ w_ok \in ExecuteResults
    /\ w_isolation \in IsolationLevels
    /\ w_py \in {2, 3}
    /\ w_out = [warned |-> FALSE, cursors |-> 0, queries |-> <<>>, exc |-> None]

WarnOff ==
    /\ w_pc = "off"
    /\ w_engine = E_sqlite3
    /\ w_val = V_5_7
    /\ w_ok = "None"
    /\ w_isolation = "READ-COMMITTED"
    /\ w_py = 3
    /\ w_out = [warned |-> FALSE, cursors |-> 0, queries |-> <<>>, exc |-> None]

\* warn_if_repeatable_read(), with _get_server_version_info_for_mysql()
WarnIfRepeatableRead ==
    /\ w_pc = "start"
    /\ w_pc' = "done"
    /\ w_out' =
         IF ~EngineIsMysql(w_engine)
           THEN w_out
           ELSE LET cmp == TupleCompare(ParseVersion(w_val), MinVersion, 1, w_py)
                IN  IF cmp = "TypeError"
                      THEN [warned |-> FALSE, cursors |-> 2,
                            queries |-> <<SelectVersion>>, exc |-> "TypeError"]
                      ELSE [warned |-> Truthy(w_ok) /\ w_isolation = "REPEATABLE-READ",
                            cursors |-> 2,
                            queries |-> <<SelectVersion, IsolationQuery(cmp)>>,
                            exc |-> None]
    /\ UNCHANGED <<retryVars, dbVars, tsVars, w_engine, w_val, w_ok, w_isolation, w_py>>

\* -------------------------------------------------------------------------
\* transaction_retry._inner on an arbitrary wrapped function
\* -------------------------------------------------------------------------
\* _max_retries = kwargs.pop('exception_retry_count', max_retries)
InnerEnter ==
    /\ r_pc = "call"
    /\ r_max' = PopValue(r_kwargs, RetryKey, DecoratorMaxRetries(r_method, r_decarg))
    /\ r_kwargs' = PopRest(r_kwargs, RetryKey)
    /\ r_retries' = 0
    /\ r_pc' = "try"
    /\ UNCHANGED <<dbVars, warnVars, tsVars, r_method, r_decarg, r_call, r_trace, r_result, r_exc>>

\* try: return fun(*args, **kwargs)
InnerAttempt ==
    /\ r_pc = "try"
    /\ \/ \E v \in 1..MaxVal :
            /\ r_trace' = Append(r_trace, FunEvent(r_kwargs, "return", v))
            /\ r_result' = v
            /\ r_exc' = None
            /\ r_pc' = "returned"
       \/ \E e \in Excs :
            /\ r_trace' = Append(r_trace, FunEvent(r_kwargs, "raise", e))
            /\ r_exc' = e
            /\ r_pc' = "except"
            /\ UNCHANGED r_result
    /\ UNCHANGED <<dbVars, warnVars, tsVars, r_method, r_decarg, r_call, r_kwargs, r_max, r_retries>>

InnerExceptAlwaysRollback ==
    /\ r_pc = "except"
    /\ \E out \in {"ok", "raise"} :
            r_trace' = Append(r_trace, RollbackEvent(out))
    /\ IF Exhausted(r_retries, r_max)
         THEN r_pc' = "raised" /\ UNCHANGED <<r_retries, r_exc>>
         ELSE r_retries' = r_retries + 1 /\ r_exc' = None /\ r_pc' = "try"
    /\ UNCHANGED <<dbVars, warnVars, tsVars, r_method, r_decarg, r_call, r_kwargs, r_max, r_result>>

\* except Exception: re-raise when the budget is spent; otherwise call
\* rollback_unless_managed(), swallow whatever it raises, and loop.
InnerExcept ==
    /\ r_pc = "except"
    /\ IF Exhausted(r_retries, r_max)
         THEN /\ r_pc' = "raised"
              /\ UNCHANGED <<r_retries, r_trace, r_exc>>
         ELSE /\ \E out \in {"ok", "raise"} :
                    r_trace' = Append(r_trace, RollbackEvent(out))
              /\ r_retries' = r_retries + 1
              /\ r_exc' = None
              /\ r_pc' = "try"
    /\ UNCHANGED <<dbVars, warnVars, tsVars, r_method, r_decarg, r_call, r_kwargs, r_max, r_result>>

RetryNext == InnerEnter \/ InnerAttempt \/ InnerExcept

RetryOnlyInit == RetryInit /\ DbOff /\ WarnOff /\ TsOff

SpecRetry == RetryOnlyInit /\ [][RetryNext]_vars

\* One worker, a database that may fail, no delete_expired. (A lone worker
\* never meets the IntegrityError of a lost race, so GetOrCreateReget is not
\* among its steps.)
SeqInit ==
    /\ DbInit
    /\ procs = {1}
    /\ faulty = TRUE
    /\ j_pc = "off"
    /\ RetryOff
    /\ WarnOff
    /\ TsOff

SeqNext ==
    \/ \E w \in Workers :
          \/ StoreResultInvoke(w)
          \/ StoreResultInvokeKw(w)
          \/ StoreResultEnter(w)
          \/ GetOrCreateGet(w)
          \/ GetOrCreateCreate(w)
          \/ UpdateOrCreateUpdate(w)
          \/ StoreResultExcept(w)
          \/ DbFault(w)
          \/ GetTaskInvoke(w)
          \/ GetTaskStep(w)
          \/ GetTaskFault(w)
          \/ Finish(w)

SpecSeq == SeqInit /\ [][SeqNext]_vars

\* Two workers have each just called store_result for the same task_id,
\* which has no row; the database does not fail.
RaceInit ==
    /\ DbInit
    /\ procs = Workers
    /\ faulty = FALSE
    /\ j_pc = "off"
    /\ RetryOff
    /\ WarnOff
    /\ TsOff

RaceCall ==
    /\ \A w \in Workers : worker[w].pc = "idle" /\ worker[w].method = "none"
    /\ \E t \in TaskIds, i1 \in Payloads, i2 \in Payloads :
          worker' = [w \in Workers |->
                       Entering(w, "store_result", t, IF w = 1 THEN i1 ELSE i2,
                                NoKwargs)]
    /\ UNCHANGED <<retryVars, warnVars, tsVars, table, nextpk, now, isolation, procs, faulty, last,
                   j_pc, j_now, j_expires, j_removed>>

RaceNext ==
    \/ RaceCall
    \/ \E w \in Workers : StoreResultStep(w)

SpecRace == RaceInit /\ [][RaceNext]_vars

\* A worker storing results while the clock runs and delete_expired is
\* called from elsewhere; the database does not fail.
ConcInit ==
    /\ DbInit
    /\ procs = {1}
    /\ faulty = FALSE
    /\ j_pc = "idle"
    /\ RetryOff
    /\ WarnOff
    /\ TsOff

ConcNext ==
    \/ \E w \in Workers :
          \/ StoreResultInvoke(w)
          \/ StoreResultEnter(w)
          \/ GetOrCreateGet(w)
          \/ GetOrCreateCreate(w)
          \/ UpdateOrCreateUpdate(w)
          \/ Finish(w)
    \/ DeleteExpired
    \/ DeleteExpiredReturn
    \/ Tick

SpecDB == ConcInit /\ [][ConcNext]_vars

WarnOnlyInit == WarnInit /\ RetryOff /\ DbOff /\ TsOff

WarnNext == WarnIfRepeatableRead

SpecWarn == WarnOnlyInit /\ [][WarnNext]_vars

\* One caller of the task set manager; the database may fail a statement of
\* store_result.
TaskSetInit ==
    /\ TsInit
    /\ RetryOff
    /\ DbOff
    /\ WarnOff

TaskSetNext ==
    \/ TaskSetStoreResultInvoke
    \/ TaskSetStoreResultEnter
    \/ TaskSetFault
    \/ TaskSetGetOrCreateGet
    \/ TaskSetGetOrCreateCreate
    \/ TaskSetUpdateOrCreateUpdate
    \/ TaskSetStoreResultExcept
    \/ RestoreTasksetInvoke
    \/ RestoreTaskset
    \/ DeleteTasksetInvoke
    \/ DeleteTaskset
    \/ TsFinish

SpecTaskSet == TaskSetInit /\ [][TaskSetNext]_vars

\* ---- properties of transaction_retry ------------------------------------
FunIdx == {i \in 1..Len(r_trace) : r_trace[i].ev = "fun"}
RollbackIdx == {i \in 1..Len(r_trace) : r_trace[i].ev = "rollback"}
AllAttemptsRaised == \A i \in FunIdx : r_trace[i].out = "raise"

\* The retry budget N of the call, read off the call's inputs.
BudgetN ==
    IF RetryKey \in DOMAIN r_call THEN r_call[RetryKey]
    ELSE IF r_method = "fun"
           THEN (IF r_decarg.given THEN r_decarg.n ELSE 1)
           ELSE 2

\* C1: one call of the wrapper invokes the wrapped function at most N+1
\* times; it returns the value of the first attempt that does not raise and
\* makes no attempt after it; it raises, with the exception of the last
\* attempt, if and only if all N+1 attempts raise.
C1_AtMostNPlusOneAttempts ==
    /\ Cardinality(FunIdx) <= BudgetN + 1
    /\ \A i \in FunIdx :
          r_trace[i].out = "return" =>
              /\ i = Len(r_trace)
              /\ r_pc = "returned"
              /\ r_result = r_trace[i].val
    /\ r_pc = "returned" =>
          /\ Len(r_trace) > 0
          /\ r_trace[Len(r_trace)].ev = "fun"
          /\ r_trace[Len(r_trace)].out = "return"
    /\ r_pc = "raised" =>
          /\ Cardinality(FunIdx) = BudgetN + 1
          /\ AllAttemptsRaised
          /\ r_exc = r_trace[Len(r_trace)].val
    /\ (Cardinality(FunIdx) = BudgetN + 1 /\ AllAttemptsRaised) =>
          r_pc \in {"except", "raised"}

C1_Witness ==
    /\ r_pc = "raised"
    /\ BudgetN = 2
    /\ Cardinality(FunIdx) = 3
    /\ r_exc = "IntegrityError"

\* C2: a failed attempt that is followed by another attempt is followed by
\* exactly one rollback before that attempt starts; no rollback follows a
\* successful attempt or the final failed attempt whose exception is
\* re-raised.
C2_RollbackBetweenAttempts ==
    /\ \A i \in RollbackIdx :
          /\ i > 1
          /\ r_trace[i - 1].ev = "fun"
          /\ r_trace[i - 1].out = "raise"
    /\ \A i \in 1..(Len(r_trace) - 1) :
          /\ r_trace[i].ev = "fun" =>
                r_trace[i].out = "raise" /\ r_trace[i + 1].ev = "rollback"
          /\ r_trace[i].ev = "rollback" => r_trace[i + 1].ev = "fun"
    /\ (r_pc = "try" /\ Len(r_trace) > 0) =>
          r_trace[Len(r_trace)].ev = "rollback"
    /\ r_pc \in {"returned", "raised"} =>
          r_trace[Len(r_trace)].ev = "fun"
    /\ r_pc = "raised" => Cardinality(RollbackIdx) = Cardinality(FunIdx) - 1

C2_Witness ==
    /\ r_pc = "returned"
    /\ Cardinality(RollbackIdx) = 2
    /\ Cardinality(FunIdx) = 3

IsStoreResult == r_method \in {"TaskManager.store_result", "TaskSetManager.store_result"}

\* C3: both store_result methods retry twice by default (at most 3 attempts);
\* exception_retry_count=k makes the budget k (at most k+1 attempts, k=0 a
\* single attempt and no rollback); the keyword is removed before the wrapped
\* method is invoked, on every attempt.
C3_StoreResultBudget ==
    IsStoreResult =>
        /\ RetryKey \notin DOMAIN r_call =>
              /\ Cardinality(FunIdx) <= 3
              /\ r_pc = "raised" => Cardinality(FunIdx) = 3
        /\ \A k \in 0..MaxRetries :
              (RetryKey \in DOMAIN r_call /\ r_call[RetryKey] = k) =>
                  /\ Cardinality(FunIdx) <= k + 1
                  /\ r_pc = "raised" => Cardinality(FunIdx) = k + 1
                  /\ k = 0 => RollbackIdx = {}
        /\ \A i \in FunIdx :
              /\ RetryKey \notin r_trace[i].kw
              /\ r_trace[i].kw = DOMAIN r_call \ {RetryKey}

C3_Witness ==
    /\ r_method = "TaskSetManager.store_result"
    /\ RetryKey \in DOMAIN r_call
    /\ r_call[RetryKey] = 3
    /\ "traceback" \in DOMAIN r_call
    /\ r_pc = "raised"
    /\ Cardinality(FunIdx) = 4


\* ---- properties of update_or_create and store_result, one worker ----------
UocReturned(w) == worker[w].method = "store_result" /\ worker[w].pc = "returned"

HoldsDefaults(r, d) == \A f \in DOMAIN d : r[f] = d[f]

HoldsArgs(r, a) ==
    /\ r.status = a.status
    /\ r.result = a.result
    /\ r.traceback = a.traceback
    /\ r.meta = [children |-> a.children]

\* C4: when update_or_create(lookup, defaults) returns, exactly one row
\* matches the lookup, every field named in defaults holds the given value,
\* the returned object is that row, and the rows that do not match the
\* lookup are as they were when the call started.
C4_UpdateOrCreateIsUpsert ==
    \A w \in procs :
        UocReturned(w) =>
            LET t == worker[w].task_id
                m == Matching(table, t)
            IN  /\ Cardinality(m) = 1
                /\ \A r \in m :
                      /\ HoldsDefaults(r, DefaultsOf(worker[w].payload))
                      /\ worker[w].ret = r
                /\ {r \in table : r.task_id # t} = {r \in worker[w].pre : r.task_id # t}

C4_Witness ==
    \E w \in procs :
        /\ UocReturned(w)
        /\ ~worker[w].created
        /\ \E r \in worker[w].pre :
              /\ r.task_id = worker[w].task_id
              /\ r.result # Args(worker[w].payload).result
        /\ \E r \in table : r.task_id # worker[w].task_id

\* C5 as stated: every call of update_or_create calls get_or_create first and
\* then save on the object it returned.
C5_AlwaysGetOrCreateThenSave ==
    \A w \in procs :
        UocReturned(w) => worker[w].calls = <<"get_or_create", "save">>

\* C5 amended: every call of update_or_create calls get_or_create first; it
\* then calls save on the returned object exactly when get_or_create did not
\* create it, and makes no other call.
C5_GetOrCreateThenSaveUnlessCreated ==
    \A w \in procs :
        worker[w].method = "store_result" =>
            /\ Len(worker[w].calls) > 0 => worker[w].calls[1] = "get_or_create"
            /\ UocReturned(w) =>
                  worker[w].calls =
                      IF worker[w].created THEN <<"get_or_create">>
                      ELSE <<"get_or_create", "save">>
            /\ Len(worker[w].calls) <= 2
            /\ Len(worker[w].calls) = 2 =>
                  worker[w].calls[2] = "save" /\ ~worker[w].created

C5_Witness ==
    \E w \in procs :
        /\ UocReturned(w)
        /\ ~worker[w].created
        /\ worker[w].calls = <<"get_or_create", "save">>

\* C6: the table holds at most one row per task_id; the row of a task_id
\* carries the status, result, traceback and children of the most recent
\* completed store_result for it; get_task(task_id) then returns that row.
C6_LastWriteWins ==
    \A t \in TaskIds :
        /\ Cardinality(Matching(table, t)) <= 1
        /\ last[t] # 0 =>
              /\ \E r \in Matching(table, t) : HoldsArgs(r, Args(last[t]))
              /\ \A w \in procs :
                    (/\ worker[w].method = "get_task"
                     /\ worker[w].pc = "returned"
                     /\ worker[w].task_id = t) =>
                        /\ worker[w].ret \in Matching(table, t)
                        /\ HoldsArgs(worker[w].ret, Args(last[t]))

C6_Witness ==
    \E w \in procs, t \in TaskIds :
        /\ worker[w].method = "get_task"
        /\ worker[w].pc = "returned"
        /\ worker[w].task_id = t
        /\ last[t] = 2
        /\ \E r \in worker[w].pre : r.task_id = t /\ r.pk = worker[w].ret.pk
        /\ isolation = RR

\* C8 as stated: get_task accepts the exception_retry_count keyword, and when
\* the lookup raises it rolls back and retries, once by default.
C8_GetTaskRetries ==
    \A w \in procs :
        worker[w].method = "get_task" =>
            /\ worker[w].exc # "TypeError"
            /\ worker[w].pc = "raised" =>
                  /\ worker[w].attempts = 2
                  /\ worker[w].rollbacks = 1


\* ---- two workers racing on one task_id -------------------------------------
BothDone == \A w \in Workers : worker[w].pc \in {"returned", "raised"}

C9_NoExpiredRowRemains ==
    j_pc = "done" =>
        /\ \A r \in table : ~(r.date_done < j_now - j_expires)
        /\ now = j_now => get_all_expired(table, j_expires) = {}

C9_Witness ==
    /\ j_pc = "done"
    /\ j_removed >= 1
    /\ table # {}
    /\ now = j_now


\* ---- warn_if_repeatable_read ------------------------------------------------
IsolationQueried == Len(w_out.queries) = 2

\* The inputs, classified by hand.
MysqlInAnyCase == {E_mysql, E_MySQL, E_backends_mysql, E_MYSQL_pool}
AtLeast_5_7_20 ==
    {V_5_7_20, V_8_0_11, V_5_7_20_log, V_10_1_26_MariaDB, V_5_10_1, V_5_7_rc}

\* C10 as stated: the warning is emitted if and only if the engine name
\* contains 'mysql', the isolation query returns a truthy result and the level
\* is exactly 'REPEATABLE-READ'; a non-MySQL engine opens no cursor and issues
\* no query; the variable queried follows the parsed server version.
C10_WarnIffEngineContainsMysql ==
    w_pc = "done" =>
        /\ w_out.warned <=>
              /\ Contains(w_engine, S_mysql)
              /\ IsolationQueried
              /\ Truthy(w_ok)
              /\ w_isolation = "REPEATABLE-READ"
        /\ ~Contains(w_engine, S_mysql) =>
              w_out.cursors = 0 /\ w_out.queries = <<>>
        /\ IsolationQueried =>
              w_out.queries[2] =
                  IF w_val \in AtLeast_5_7_20 THEN SelectTransactionIsolation
                  ELSE SelectTxIsolation

\* C10 amended: as stated, with "contains 'mysql'" read without regard to
\* letter case (the engine name is lower-cased before the test).
C10_WarnIffEngineContainsMysqlAnyCase ==
    w_pc = "done" =>
        /\ w_out.warned <=>
              /\ w_engine \in MysqlInAnyCase
              /\ IsolationQueried
              /\ Truthy(w_ok)
              /\ w_isolation = "REPEATABLE-READ"
        /\ w_engine \notin MysqlInAnyCase =>
              w_out.cursors = 0 /\ w_out.queries = <<>>
        /\ IsolationQueried =>
              /\ w_out.queries[1] = SelectVersion
              /\ w_out.queries[2] =
                    IF w_val \in AtLeast_5_7_20 THEN SelectTransactionIsolation
                    ELSE SelectTxIsolation
        /\ (w_engine \in MysqlInAnyCase /\ ~IsolationQueried) =>
              w_out.exc = "TypeError" /\ w_val = V_5_7_rc /\ w_py = 3

C10_Witness ==
    /\ w_pc = "done"
    /\ w_engine = E_MySQL
    /\ w_val = V_5_6_40_log
    /\ w_out.warned
    /\ w_out.queries = <<SelectVersion, SelectTxIsolation>>

\* ---- properties of TaskSetManager ---------------------------------------
TsReturned(method) == ts_pc = "returned" /\ ts_call.method = method

OtherRows(rows, taskset_id) == {r \in rows : r.taskset_id # taskset_id}

\* C11: restore_taskset(id) returns the row with result r once
\* store_result(id, r) has completed (and no delete_taskset(id) since), and
\* returns None, raising nothing, when no row has that taskset_id;
\* delete_taskset(id) removes the row of id when there is one and changes
\* nothing when there is none, so that restore_taskset(id) right after it
\* returns None; the rows of other taskset_ids are left as they were.
C11_TaskSetStoreRestoreDelete ==
    LET id == ts_call.taskset_id
    IN  /\ ts_pc = "raised" => ts_call.method = "store_result"
        /\ TsReturned("store_result") =>
              /\ restore_taskset(ts_table, id).exc = None
              /\ ~restore_taskset(ts_table, id).ret.is_none
              /\ restore_taskset(ts_table, id).ret.obj.result = ts_call.result
              /\ OtherRows(ts_table, id) = OtherRows(ts_call.pre, id)
        /\ TsReturned("restore_taskset") =>
              /\ ts_table = ts_call.pre
              /\ ts_last[id].op = "store" =>
                    /\ ~ts_call.ret.is_none
                    /\ ts_call.ret.obj \in ts_table
                    /\ ts_call.ret.obj.taskset_id = id
                    /\ ts_call.ret.obj.result = ts_last[id].result
              /\ ts_last[id].op = "delete" => ts_call.ret = PyNone
              /\ TsMatching(ts_table, id) = {} => ts_call.ret = PyNone
        /\ TsReturned("delete_taskset") =>
              /\ TsMatching(ts_table, id) = {}
              /\ restore_taskset(ts_table, id) = [ret |-> PyNone, exc |-> None]
              /\ OtherRows(ts_table, id) = OtherRows(ts_call.pre, id)
              /\ TsMatching(ts_call.pre, id) = {} => ts_table = ts_call.pre
              /\ TsMatching(ts_call.pre, id) # {} => ts_table # ts_call.pre

\* restore_taskset(2) returns the row stored last, with result 2 written
\* over result 1, while taskset 1 was stored and then deleted.
C11_Witness ==
    /\ TsReturned("restore_taskset")
    /\ ts_call.taskset_id = 2
    /\ ts_call.ret = PyObj([pk |-> 2, taskset_id |-> 2, result |-> 2])
    /\ ts_last[2] = [op |-> "store", result |-> 2]
    /\ ts_last[1].op = "delete"
    /\ ts_nextpk = 3
    /\ ts_table = {[pk |-> 2, taskset_id |-> 2, result |-> 2]}

====
